---- MODULE Spec2Model ----
(***************************************************************************)
(* The boids simulation of src/rust/src/boids.rs, driven by the Godot node *)
(* GameWorld of src/rust/src/gameworld.rs.                                 *)
(*                                                                         *)
(* Numbers.  The program computes in f32.  Here a Vector2 is a pair of     *)
(* integers.  Pos, Velocity and the sprite position are counted in grid    *)
(* units.  Forces and Acceleration are numerators over Frac, the least     *)
(* common multiple of the possible neighbour counts, so that the mean over *)
(* any number of neighbours is exact.  A quotient that leaves the grid     *)
(* (the speed clamp, velocity * delta) is rounded toward zero.  A delta    *)
(* time is a fraction <<numerator, denominator>> of a second.              *)
(***************************************************************************)
EXTENDS Integers, Sequences, FiniteSets, TLC

\* ------------------------------------------------------------------------
\*     - Bounds and program constants -
\* ------------------------------------------------------------------------
\* Population size: 80 in the source, bounded here.
BOID_COUNT == 2
\* Number of _physics_process calls explored.
MaxTicks == 2
\* Number of *_value_changed signals explored.
MaxSets == 1

MAX_SPEED == 500
CohesionDistance == 200
SeparationDistance == 100
AlignmentDistance == 100
WrapOffset == 16
InitialSpeed == 500

Entities == 1..BOID_COUNT

\* ------------------------------------------------------------------------
\*     - Vector2 -
\* ------------------------------------------------------------------------
Zero == <<0, 0>>
VAdd(a, b) == <<a[1] + b[1], a[2] + b[2]>>
VSub(a, b) == <<a[1] - b[1], a[2] - b[2]>>
VScale(a, k) == <<a[1] * k, a[2] * k>>
\* Quotient rounded toward zero, d > 0.
Trunc(n, d) == IF n >= 0 THEN n \div d ELSE -((-n) \div d)
VDiv(a, d) == <<Trunc(a[1], d), Trunc(a[2], d)>>
SquareLength(a) == a[1] * a[1] + a[2] * a[2]

RECURSIVE Gcd(_, _)
Gcd(a, b) == IF b = 0 THEN a ELSE Gcd(b, a % b)
RECURSIVE LcmUpTo(_)
LcmUpTo(n) == IF n <= 1 THEN 1 ELSE (LcmUpTo(n - 1) * n) \div Gcd(LcmUpTo(n - 1), n)
\* Denominator of the force and acceleration numerators.
Frac == LcmUpTo(BOID_COUNT)

\* Least s in lo..hi with s * s >= n (hi is large enough).
RECURSIVE SqrtSearch(_, _, _)
SqrtSearch(n, lo, hi) ==
    IF lo >= hi THEN lo
    ELSE LET mid == (lo + hi) \div 2
         IN IF mid * mid >= n THEN SqrtSearch(n, lo, mid)
            ELSE SqrtSearch(n, mid + 1, hi)
\* sqrt rounded up, for 0 <= n < 2^31.
Sqrt(n) == SqrtSearch(n, 0, 46340)

\* Vector2::with_max_length applied to the vector w / den, the result on the
\* grid: unchanged when its square length is at most max^2, else scaled by
\* max / length.
WithMaxLengthNoClamp(w, den, max) == VDiv(w, den)
WithMaxLength(w, den, max) ==
    IF SquareLength(w) > (max * den) * (max * den)
    THEN <<Trunc(w[1] * max, Sqrt(SquareLength(w))),
           Trunc(w[2] * max, Sqrt(SquareLength(w)))>>
    ELSE VDiv(w, den)

\* f32::atan2(y, x) in units of 45 degrees, rounded down; range -4..4.
Atan2(y, x) ==
    IF y = 0 THEN (IF x >= 0 THEN 0 ELSE 4)
    ELSE IF y > 0
    THEN (IF x > 0 THEN (IF y < x THEN 0 ELSE 1)
          ELSE IF y > -x THEN 2 ELSE 3)
    ELSE (IF x > 0 THEN (IF -y <= x THEN -1 ELSE -2)
          ELSE IF -y >= -x THEN (IF x = 0 THEN -2 ELSE -3) ELSE -4)

\* (other - pos).length() < distance, compared on the squares.
WithinInclusive(p, q, distance) == SquareLength(VSub(q, p)) <= distance * distance
Within(p, q, distance) == SquareLength(VSub(q, p)) < distance * distance

\* ------------------------------------------------------------------------
\*     - Resources -
\* ------------------------------------------------------------------------
\* Rect2::new(origin, size)
min_x(rect) == rect.origin[1]
max_x(rect) == rect.origin[1] + rect.size[1]
min_y(rect) == rect.origin[2]
max_y(rect) == rect.origin[2] + rect.size[2]

\* Viewport::from_vec2
from_vec2(size) ==
    LET origin == VDiv(size, 2)
    IN [origin |-> VSub(Zero, origin), size |-> size]

\* Display sizes the host reports.
WindowSizes == {<<206, 300>>}
\* Delta times the host passes, in seconds: 1/25 and 2/25.
Deltas == {<<1, 25>>, <<2, 25>>}
\* Values the tuning sliders send.
MulValues == {-1, 2}

\* Spawn points and headings drawn by _ready.
Spawns ==
    << [pos |-> <<0, 0>>,     vel |-> <<500, 0>>],
       [pos |-> <<50, 0>>,    vel |-> <<500, 0>>],
       [pos |-> <<100, 0>>,   vel |-> <<500, 0>>],
       [pos |-> <<100, 147>>, vel |-> <<300, 400>>],
       [pos |-> <<-100, 0>>,  vel |-> <<-500, 0>>],
       [pos |-> <<0, -147>>,  vel |-> <<-300, -400>>] >>

VARIABLES
    Pos, Velocity, Acceleration, Forces, Boid,   \* components, per entity
    Delta, CohesionMul, SeparationMul, AlignmentMul, Viewport,   \* resources
    pc,         \* 0: between ticks; i: system i of the schedule runs next
    ticks,      \* _physics_process calls so far
    sets,       \* *_value_changed calls so far
    call,       \* the last host callback and its argument
    executed,   \* systems run by the current (or last) tick, in order
    start,      \* components and multipliers when the current tick began
    moved,      \* Pos when screen_wrap was entered
    pushed      \* set_global_position calls made by the last screen_wrap

vars == <<Pos, Velocity, Acceleration, Forces, Boid,
          Delta, CohesionMul, SeparationMul, AlignmentMul, Viewport,
          pc, ticks, sets, call, executed, start, moved, pushed>>

resources == <<Delta, CohesionMul, SeparationMul, AlignmentMul, Viewport>>

\* Forces::zero
ForcesZero == [cohesion |-> Zero, separation |-> Zero, alignment |-> Zero]

Snapshot ==
    [Pos |-> Pos, Velocity |-> Velocity, CohesionMul |-> CohesionMul,
     SeparationMul |-> SeparationMul, AlignmentMul |-> AlignmentMul]

\* ------------------------------------------------------------------------
\*     - GameWorld::_init and GameWorld::_ready -
\* ------------------------------------------------------------------------
Init ==
    /\ \E size \in WindowSizes : Viewport = from_vec2(size)
    \* The entities are interchangeable: one order of the draws is kept.
    /\ \E draw \in [Entities -> 1..Len(Spawns)] :
        /\ \A e \in Entities : e > 1 => draw[e - 1] <= draw[e]
        /\ \A e \in Entities :
            LET pos == Spawns[draw[e]].pos
            IN /\ min_x(Viewport) <= pos[1] /\ pos[1] < max_x(Viewport)
               /\ min_y(Viewport) <= pos[2] /\ pos[2] < max_y(Viewport)
               /\ SquareLength(Spawns[draw[e]].vel) = InitialSpeed * InitialSpeed
        /\ Pos = [e \in Entities |-> Spawns[draw[e]].pos]
        /\ Velocity = [e \in Entities |-> Spawns[draw[e]].vel]
        /\ Boid = [e \in Entities |->
                      [global_position |-> Spawns[draw[e]].pos, global_rotation |-> 0]]
    /\ Acceleration = [e \in Entities |-> Zero]
    /\ Forces = [e \in Entities |-> ForcesZero]
    /\ Delta = <<0, 1>>
    /\ CohesionMul = 1
    /\ SeparationMul = 1
    /\ AlignmentMul = 1
    /\ pc = 0
    /\ ticks = 0
    /\ sets = 0
    /\ call = <<"_ready", 0>>
    /\ executed = <<>>
    /\ start = Snapshot
    /\ moved = Pos
    /\ pushed = [e \in Entities |-> 0]

\* ------------------------------------------------------------------------
\*     - Systems -
\* ------------------------------------------------------------------------
RECURSIVE VSum(_, _)
\* Sum of the vectors f[o], o in S.
VSum(f, S) ==
    IF S = {} THEN Zero
    ELSE LET o == CHOOSE o \in S : TRUE
         IN VAdd(f[o], VSum(f, S \ {o}))

\* The entities the inner loop of a force pass counts for entity e.
NeighboursExcludingSelf(positions, e, distance) ==
    {o \in Entities \ {e} : Within(positions[e], positions[o], distance)}
Neighbours(positions, e, distance) ==
    {o \in Entities : Within(positions[e], positions[o], distance)}

\* One iteration of the outer loop of cohesion(): the new force.cohesion of e.
CohesionForceNoSubtract(positions, e, force) ==
    LET near == Neighbours(positions, e, CohesionDistance)
        sum == VAdd(force, VScale(VSum(positions, near), Frac))
    IN IF Cardinality(near) > 0 THEN VDiv(sum, Cardinality(near)) ELSE sum
CohesionForce(positions, e, force) ==
    LET near == Neighbours(positions, e, CohesionDistance)
        count == Cardinality(near)
        sum == VAdd(force, VScale(VSum(positions, near), Frac))
    IN IF count > 0
       THEN VSub(VDiv(sum, count), VScale(positions[e], Frac))
       ELSE sum

\* One iteration of the outer loop of separation().
SeparationForce(positions, e, force) ==
    LET near == Neighbours(positions, e, SeparationDistance)
        count == Cardinality(near)
        away == [o \in Entities |-> VSub(positions[e], positions[o])]
        sum == VAdd(force, VScale(VSum(away, near), Frac))
    IN IF count > 0 THEN VDiv(sum, count) ELSE sum

\* One iteration of the outer loop of alignment().
AlignmentForce(positions, velocities, e, force) ==
    LET near == Neighbours(positions, e, AlignmentDistance)
        count == Cardinality(near)
        sum == VAdd(force, VScale(VSum(velocities, near), Frac))
    IN IF count > 0 THEN VDiv(sum, count) ELSE sum

cohesion_writes_separation(positions, forces) ==
    [e \in Entities |->
        [forces[e] EXCEPT !.cohesion = CohesionForce(positions, e, @),
                          !.separation = CohesionForce(positions, e, @)]]
cohesion(positions, forces) ==
    [e \in Entities |->
        [forces[e] EXCEPT !.cohesion = CohesionForce(positions, e, @)]]

separation(positions, forces) ==
    [e \in Entities |->
        [forces[e] EXCEPT !.separation = SeparationForce(positions, e, @)]]

alignment(positions, velocities, forces) ==
    [e \in Entities |->
        [forces[e] EXCEPT !.alignment = AlignmentForce(positions, velocities, e, @)]]

reset_acceleration_skipped(accelerations) == accelerations
reset_acceleration(accelerations) == [e \in Entities |-> Zero]

reset_forces_skipped(forces) == forces
reset_forces(forces) == [e \in Entities |-> ForcesZero]

\* One iteration of apply_forces(): the new acceleration.
Blend(force, acc, cohesion_mul, separation_mul, alignment_mul) ==
    VAdd(VAdd(VAdd(acc, VScale(force.cohesion, cohesion_mul)),
              VScale(force.separation, separation_mul)),
         VScale(force.alignment, alignment_mul))

apply_forces(forces, accelerations, cohesion_mul, separation_mul, alignment_mul) ==
    [e \in Entities |->
        Blend(forces[e], accelerations[e], cohesion_mul, separation_mul, alignment_mul)]

\* Node2D::global_translate and Node2D::set_global_position on a sprite.
global_translate(sprite, offset) ==
    [sprite EXCEPT !.global_position = VAdd(@, offset)]
set_global_position(sprite, position) ==
    [sprite EXCEPT !.global_position = position]

\* One iteration of move_boids(): velocity, sprite and cached position of e.
MoveBoid(acc, vel, sprite, delta) ==
    LET v == WithMaxLength(VAdd(VScale(vel, Frac), acc), Frac, MAX_SPEED)
        s == global_translate(sprite, VDiv(VScale(v, delta[1]), delta[2]))
    IN [vel |-> v, boid |-> s, pos |-> s.global_position]

\* One iteration of rotate().
Rotate(sprite, vel) ==
    [sprite EXCEPT !.global_rotation = Atan2(vel[2], vel[1])]

\* One iteration of screen_wrap(): the x branch, then the y branch.
WrapXOnly(pos, sprite, viewport) ==
    LET offset == WrapOffset
        x == IF pos[1] < min_x(viewport) - offset THEN max_x(viewport) + offset
             ELSE IF pos[1] > max_x(viewport) + offset THEN min_x(viewport) - offset
             ELSE pos[1]
    IN [pos |-> <<x, pos[2]>>,
        boid |-> IF x # pos[1] THEN set_global_position(sprite, <<x, pos[2]>>)
                 ELSE sprite,
        pushed |-> IF x # pos[1] THEN 1 ELSE 0]
WrapNoOffset(pos, sprite, viewport) ==
    LET x == IF pos[1] < min_x(viewport) - WrapOffset THEN max_x(viewport)
             ELSE IF pos[1] > max_x(viewport) + WrapOffset THEN min_x(viewport)
             ELSE pos[1]
        y == IF pos[2] < min_y(viewport) - WrapOffset THEN max_y(viewport)
             ELSE IF pos[2] > max_y(viewport) + WrapOffset THEN min_y(viewport)
             ELSE pos[2]
    IN [pos |-> <<x, y>>,
        boid |-> IF <<x, y>> # pos THEN set_global_position(sprite, <<x, y>>)
                 ELSE sprite,
        pushed |-> (IF x # pos[1] THEN 1 ELSE 0) + (IF y # pos[2] THEN 1 ELSE 0)]
Wrap(pos, sprite, viewport) ==
    LET offset == WrapOffset
        xlow == pos[1] < min_x(viewport) - offset
        xhigh == ~xlow /\ pos[1] > max_x(viewport) + offset
        pos1 == IF xlow THEN <<max_x(viewport) + offset, pos[2]>>
                ELSE IF xhigh THEN <<min_x(viewport) - offset, pos[2]>>
                ELSE pos
        sprite1 == IF xlow \/ xhigh THEN set_global_position(sprite, pos1)
                   ELSE sprite
        ylow == pos1[2] < min_y(viewport) - offset
        yhigh == ~ylow /\ pos1[2] > max_y(viewport) + offset
        pos2 == IF ylow THEN <<pos1[1], max_y(viewport) + offset>>
                ELSE IF yhigh THEN <<pos1[1], min_y(viewport) - offset>>
                ELSE pos1
        sprite2 == IF ylow \/ yhigh THEN set_global_position(sprite1, pos2)
                   ELSE sprite1
    IN [pos |-> pos2, boid |-> sprite2,
        pushed |-> (IF xlow \/ xhigh THEN 1 ELSE 0) + (IF ylow \/ yhigh THEN 1 ELSE 0)]

\* add_boid_systems: the systems in the order they are added.
ScheduleMoveFirst ==
    <<"reset acceleration", "reset forces", "move_boids", "cohesion", "separation",
      "alignment", "apply forces", "rotate", "sceen_wrap">>
Schedule ==
    <<"reset acceleration", "reset forces", "cohesion", "separation", "alignment",
      "apply forces", "move_boids", "rotate", "sceen_wrap">>

\* Schedule::execute is about to run the system `name`.
Scheduled(name) == pc \in 1..Len(Schedule) /\ Schedule[pc] = name

\* The executor moves on to the next system, or returns to the host.
Advance(name) ==
    /\ pc' = IF pc = Len(Schedule) THEN 0 ELSE pc + 1
    /\ executed' = Append(executed, name)
    /\ UNCHANGED <<resources, ticks, sets, call, start>>

ResetAcceleration ==
    /\ Scheduled("reset acceleration")
    /\ Acceleration' = reset_acceleration(Acceleration)
    /\ UNCHANGED <<Pos, Velocity, Forces, Boid, moved, pushed>>
    /\ Advance("reset acceleration")

ResetForces ==
    /\ Scheduled("reset forces")
    /\ Forces' = reset_forces(Forces)
    /\ UNCHANGED <<Pos, Velocity, Acceleration, Boid, moved, pushed>>
    /\ Advance("reset forces")

CohesionSystem ==
    /\ Scheduled("cohesion")
    /\ Forces' = cohesion(Pos, Forces)
    /\ UNCHANGED <<Pos, Velocity, Acceleration, Boid, moved, pushed>>
    /\ Advance("cohesion")

SeparationSystem ==
    /\ Scheduled("separation")
    /\ Forces' = separation(Pos, Forces)
    /\ UNCHANGED <<Pos, Velocity, Acceleration, Boid, moved, pushed>>
    /\ Advance("separation")

AlignmentSystem ==
    /\ Scheduled("alignment")
    /\ Forces' = alignment(Pos, Velocity, Forces)
    /\ UNCHANGED <<Pos, Velocity, Acceleration, Boid, moved, pushed>>
    /\ Advance("alignment")

ApplyForces ==
    /\ Scheduled("apply forces")
    /\ Acceleration' =
          apply_forces(Forces, Acceleration, CohesionMul, SeparationMul, AlignmentMul)
    /\ UNCHANGED <<Pos, Velocity, Forces, Boid, moved, pushed>>
    /\ Advance("apply forces")

MoveBoids ==
    /\ Scheduled("move_boids")
    /\ LET m == [e \in Entities |->
                    MoveBoid(Acceleration[e], Velocity[e], Boid[e], Delta)]
       IN /\ Velocity' = [e \in Entities |-> m[e].vel]
          /\ Boid' = [e \in Entities |-> m[e].boid]
          /\ Pos' = [e \in Entities |-> m[e].pos]
    /\ UNCHANGED <<Acceleration, Forces, moved, pushed>>
    /\ Advance("move_boids")

RotateSystem ==
    /\ Scheduled("rotate")
    /\ Boid' = [e \in Entities |-> Rotate(Boid[e], Velocity[e])]
    /\ UNCHANGED <<Pos, Velocity, Acceleration, Forces, moved, pushed>>
    /\ Advance("rotate")

ScreenWrap ==
    /\ Scheduled("sceen_wrap")
    /\ LET w == [e \in Entities |-> Wrap(Pos[e], Boid[e], Viewport)]
       IN /\ Pos' = [e \in Entities |-> w[e].pos]
          /\ Boid' = [e \in Entities |-> w[e].boid]
          /\ pushed' = [e \in Entities |-> w[e].pushed]
    /\ moved' = Pos
    /\ UNCHANGED <<Velocity, Acceleration, Forces>>
    /\ Advance("sceen_wrap")

\* ------------------------------------------------------------------------
\*     - signals -
\* ------------------------------------------------------------------------
\* The host calls the exported methods one at a time (each takes &mut self),
\* so a callback starts only when no tick is running.
PhysicsProcess(delta) ==
    /\ pc = 0
    /\ ticks < MaxTicks
    /\ Delta' = delta
    /\ pc' = IF Len(Schedule) = 0 THEN 0 ELSE 1
    /\ executed' = <<>>
    /\ ticks' = ticks + 1
    /\ call' = <<"_physics_process", delta>>
    /\ start' = Snapshot
    /\ UNCHANGED <<Pos, Velocity, Acceleration, Forces, Boid,
                   CohesionMul, SeparationMul, AlignmentMul, Viewport,
                   sets, moved, pushed>>

Signal(name, val) ==
    /\ pc = 0
    /\ sets < MaxSets
    /\ sets' = sets + 1
    /\ call' = <<name, val>>
    /\ UNCHANGED <<Pos, Velocity, Acceleration, Forces, Boid, Delta, Viewport,
                   pc, ticks, executed, start, moved, pushed>>

cohesion_value_changed(val) ==
    /\ Signal("cohesion_value_changed", val)
    /\ CohesionMul' = val
    /\ UNCHANGED <<SeparationMul, AlignmentMul>>

separation_value_changed_writes_cohesion(val) ==
    /\ Signal("separation_value_changed", val)
    /\ CohesionMul' = val
    /\ UNCHANGED <<SeparationMul, AlignmentMul>>
separation_value_changed(val) ==
    /\ Signal("separation_value_changed", val)
    /\ SeparationMul' = val
    /\ UNCHANGED <<CohesionMul, AlignmentMul>>

alignment_value_changed(val) ==
    /\ Signal("alignment_value_changed", val)
    /\ AlignmentMul' = val
    /\ UNCHANGED <<CohesionMul, SeparationMul>>

Tick == \E delta \in Deltas : PhysicsProcess(delta)
CohesionValueChanged == \E val \in MulValues : cohesion_value_changed(val)
SeparationValueChanged == \E val \in MulValues : separation_value_changed(val)
AlignmentValueChanged == \E val \in MulValues : alignment_value_changed(val)

Next ==
    \/ Tick
    \/ CohesionValueChanged
    \/ SeparationValueChanged
    \/ AlignmentValueChanged
    \/ ResetAcceleration
    \/ ResetForces
    \/ CohesionSystem
    \/ SeparationSystem
    \/ AlignmentSystem
    \/ ApplyForces
    \/ MoveBoids
    \/ RotateSystem
    \/ ScreenWrap

Spec == Init /\ [][Next]_vars

\* ------------------------------------------------------------------------
\*     - Properties -
\* ------------------------------------------------------------------------
\* The system `name` has run in the current tick (or in the last one, once it
\* has returned).
Ran(name) == \E i \in 1..Len(executed) : executed[i] = name
\* A tick has returned and no other has begun.
TickDone == pc = 0 /\ ticks > 0
\* The three force passes are done and the agents have not moved yet.
PassesDone ==
    Ran("cohesion") /\ Ran("separation") /\ Ran("alignment") /\ ~Ran("move_boids")
\* The blend is done and the agents have not moved yet.
Blended == Ran("apply forces") /\ ~Ran("move_boids")
\* The grid vector v as a numerator over Frac.
Exact(v) == VScale(v, Frac)
DistSq(e, o) == SquareLength(VSub(Pos[e], Pos[o]))

\* C1. Speed bound: in every reachable state, so at the end of every tick,
\* every agent's velocity has length at most MAX_SPEED.
SpeedBound ==
    \A e \in Entities : SquareLength(Velocity[e]) <= MAX_SPEED * MAX_SPEED

\* A tick has ended in which move_boids had to clamp a velocity.
SpeedBoundWitness ==
    /\ TickDone
    /\ \E e \in Entities :
        SquareLength(VAdd(Exact(start.Velocity[e]), Acceleration[e]))
            > (MAX_SPEED * Frac) * (MAX_SPEED * Frac)

NineStages ==
    <<"reset acceleration", "reset forces", "cohesion", "separation", "alignment",
      "apply forces", "move_boids", "rotate", "sceen_wrap">>

\* C2. Tick order: a tick stores the delta time it was called with and then
\* runs the nine stages, each once, in the order reset-acceleration,
\* reset-forces, cohesion, separation, alignment, apply_forces, move_boids,
\* rotate, screen_wrap: what has run is always a prefix of that list, and the
\* whole list once the tick has returned.
TickOrder ==
    /\ Len(executed) <= Len(NineStages)
    /\ executed = SubSeq(NineStages, 1, Len(executed))
    /\ pc # 0 => /\ Len(executed) = pc - 1
                 /\ call[1] = "_physics_process"
                 /\ Delta = call[2]
    /\ TickDone => executed = NineStages

\* Two ticks have run to completion.
TickOrderWitness == TickDone /\ ticks = 2 /\ Len(executed) = 9

\* No other agent within the cohesion radius (hence none within the smaller ones).
Isolated(e) ==
    \A o \in Entities \ {e} : DistSq(e, o) >= CohesionDistance * CohesionDistance

\* C3 as stated. Zero-neighbour idempotence: an isolated agent has all three
\* force slots zero after the passes and zero acceleration after the blend.
ZeroNeighbourIdempotence ==
    \A e \in Entities :
        Isolated(e) =>
            /\ PassesDone => Forces[e] = ForcesZero
            /\ Blended => Acceleration[e] = Zero

\* C3 as amended. An isolated agent has zero cohesion and separation after the
\* passes, and its alignment slot is its own velocity (it counts itself); after
\* the blend its acceleration is its velocity times the alignment multiplier.
IsolatedAgentForces ==
    \A e \in Entities :
        Isolated(e) =>
            /\ PassesDone =>
                  Forces[e] = [cohesion |-> Zero, separation |-> Zero,
                               alignment |-> Exact(Velocity[e])]
            /\ Blended => Acceleration[e] = VScale(Exact(Velocity[e]), AlignmentMul)

\* The blend has run for an isolated agent that moves and is off the origin.
IsolatedAgentWitness ==
    /\ Blended
    /\ \E e \in Entities :
        Isolated(e) /\ Velocity[e] # Zero /\ Pos[e] # Zero /\ Acceleration[e] # Zero

\* C4 as stated. Two agents at distance d: cohesion is non-zero iff d < 200,
\* separation and alignment are non-zero iff d < 100.
NeighbourRadius ==
    (BOID_COUNT = 2 /\ PassesDone) =>
        \A e \in Entities :
            /\ Forces[e].cohesion # Zero
                  <=> DistSq(1, 2) < CohesionDistance * CohesionDistance
            /\ Forces[e].separation # Zero
                  <=> DistSq(1, 2) < SeparationDistance * SeparationDistance
            /\ Forces[e].alignment # Zero
                  <=> DistSq(1, 2) < AlignmentDistance * AlignmentDistance

\* C4 as amended. Two agents at distance d: cohesion is non-zero iff
\* 0 < d < 200, separation is non-zero iff 0 < d < 100; alignment is the mean
\* of the two velocities if d < 100 and the agent's own velocity if d >= 100.
NeighbourRadiusAmended ==
    (BOID_COUNT = 2 /\ PassesDone) =>
        \A e \in Entities :
            /\ Forces[e].cohesion # Zero
                  <=> /\ 0 < DistSq(1, 2)
                      /\ DistSq(1, 2) < CohesionDistance * CohesionDistance
            /\ Forces[e].separation # Zero
                  <=> /\ 0 < DistSq(1, 2)
                      /\ DistSq(1, 2) < SeparationDistance * SeparationDistance
            /\ DistSq(1, 2) < AlignmentDistance * AlignmentDistance =>
                  VScale(Forces[e].alignment, 2)
                      = Exact(VAdd(Velocity[1], Velocity[2]))
            /\ DistSq(1, 2) >= AlignmentDistance * AlignmentDistance =>
                  Forces[e].alignment = Exact(Velocity[e])

\* The passes have run for two agents exactly 200 apart.
NeighbourRadiusWitness ==
    /\ BOID_COUNT = 2
    /\ PassesDone
    /\ DistSq(1, 2) = CohesionDistance * CohesionDistance

\* Where the wrap sends a coordinate c of an axis spanning lo..hi.
WrappedTo(c, lo, hi) ==
    IF c > hi + WrapOffset THEN lo - WrapOffset
    ELSE IF c < lo - WrapOffset THEN hi + WrapOffset
    ELSE c
InsideMargin(p) ==
    /\ min_x(Viewport) - WrapOffset <= p[1] /\ p[1] <= max_x(Viewport) + WrapOffset
    /\ min_y(Viewport) - WrapOffset <= p[2] /\ p[2] <= max_y(Viewport) + WrapOffset

\* C5. Wrap correctness: an agent that enters screen_wrap at x = max_x + 16 + 1
\* leaves the tick at x = min_x - 16, one at min_x - 16 - 1 at max_x + 16, the
\* same on the y axis (and so for any coordinate beyond the margin); the cached
\* position and the sprite agree; an agent at the margin or inside it is not
\* moved and no absolute position is pushed to its sprite.
WrapCorrectness ==
    TickDone =>
        \A e \in Entities :
            /\ moved[e][1] = max_x(Viewport) + WrapOffset + 1
                  => Pos[e][1] = min_x(Viewport) - WrapOffset
            /\ moved[e][1] = min_x(Viewport) - WrapOffset - 1
                  => Pos[e][1] = max_x(Viewport) + WrapOffset
            /\ moved[e][2] = max_y(Viewport) + WrapOffset + 1
                  => Pos[e][2] = min_y(Viewport) - WrapOffset
            /\ moved[e][2] = min_y(Viewport) - WrapOffset - 1
                  => Pos[e][2] = max_y(Viewport) + WrapOffset
            /\ Pos[e][1] = WrappedTo(moved[e][1], min_x(Viewport), max_x(Viewport))
            /\ Pos[e][2] = WrappedTo(moved[e][2], min_y(Viewport), max_y(Viewport))
            /\ Boid[e].global_position = Pos[e]
            /\ InsideMargin(moved[e]) => Pos[e] = moved[e] /\ pushed[e] = 0
            /\ pushed[e] = 0 => InsideMargin(moved[e])

\* A tick has ended in which an agent entered screen_wrap at max_x + 16 + 1.
WrapCorrectnessWitness ==
    /\ TickDone
    /\ \E e \in Entities :
        /\ moved[e][1] = max_x(Viewport) + WrapOffset + 1
        /\ Pos[e][1] = min_x(Viewport) - WrapOffset
        /\ pushed[e] = 1

\* The sum the blend adds for a force record under the given multipliers.
Weighted(force, cohesion_mul, separation_mul, alignment_mul) ==
    VAdd(VAdd(VScale(force.cohesion, cohesion_mul),
              VScale(force.separation, separation_mul)),
         VScale(force.alignment, alignment_mul))

\* C6. Reset before accumulate: the acceleration is zero from its reset to the
\* blend and the force slots are zero from their reset to the first pass; once
\* the blend has run, and so at the end of every tick, each agent's
\* acceleration is exactly cohesion * cohesion_multiplier + separation *
\* separation_multiplier + alignment * alignment_multiplier, the forces being
\* the ones the passes compute in this tick from zeroed slots.
ResetBeforeAccumulate ==
    /\ (Ran("reset acceleration") /\ ~Ran("apply forces")) =>
          \A e \in Entities : Acceleration[e] = Zero
    /\ (Ran("reset forces") /\ ~Ran("cohesion")) =>
          \A e \in Entities : Forces[e] = ForcesZero
    /\ Ran("apply forces") =>
          \A e \in Entities :
              /\ Acceleration[e] =
                    Weighted(Forces[e], start.CohesionMul, start.SeparationMul,
                             start.AlignmentMul)
              /\ Forces[e].cohesion = CohesionForce(start.Pos, e, Zero)
              /\ Forces[e].separation = SeparationForce(start.Pos, e, Zero)
              /\ Forces[e].alignment =
                    AlignmentForce(start.Pos, start.Velocity, e, Zero)

\* A second tick has ended with a non-zero acceleration, after a first one
\* that left non-zero forces behind.
ResetBeforeAccumulateWitness ==
    /\ TickDone
    /\ ticks = 2
    /\ \E e \in Entities :
        /\ Acceleration[e] # Zero
        /\ Forces[e].cohesion # Zero
        /\ Forces[e].alignment # Zero

\* A step of the named setter.
SetterStep(name) == sets' # sets /\ call'[1] = name
AgentsAndRest == <<Pos, Velocity, Acceleration, Forces, Boid, Delta, Viewport>>

\* C7. Tuning setters are tick-atomic: each setter writes its argument to its
\* own multiplier and nothing else; a multiplier changes only in a setter
\* step taken between two ticks; a tick starts from the multipliers as last
\* written, keeps them, and blends every agent with them.
TuningSetters ==
    [][ /\ SetterStep("cohesion_value_changed") =>
              /\ CohesionMul' = call'[2]
              /\ UNCHANGED <<SeparationMul, AlignmentMul, AgentsAndRest>>
        /\ SetterStep("separation_value_changed") =>
              /\ SeparationMul' = call'[2]
              /\ UNCHANGED <<CohesionMul, AlignmentMul, AgentsAndRest>>
        /\ SetterStep("alignment_value_changed") =>
              /\ AlignmentMul' = call'[2]
              /\ UNCHANGED <<CohesionMul, SeparationMul, AgentsAndRest>>
        /\ <<CohesionMul, SeparationMul, AlignmentMul>>'
               # <<CohesionMul, SeparationMul, AlignmentMul>> =>
              /\ pc = 0 /\ pc' = 0
              /\ sets' # sets
        /\ (pc = 0 /\ pc' # 0) =>
              /\ start'.CohesionMul = CohesionMul
              /\ start'.SeparationMul = SeparationMul
              /\ start'.AlignmentMul = AlignmentMul
        /\ Scheduled("apply forces") =>
              \A e \in Entities :
                  Acceleration'[e] =
                      VAdd(Acceleration[e],
                           Weighted(Forces[e], start.CohesionMul,
                                    start.SeparationMul, start.AlignmentMul))
      ]_vars

\* A setter has written a new value and a later tick has blended with it.
TuningSettersWitness ==
    /\ sets = 1
    /\ Ran("apply forces")
    /\ <<start.CohesionMul, start.SeparationMul, start.AlignmentMul>> # <<1, 1, 1>>
    /\ \E e \in Entities :
        /\ Acceleration[e] # Zero
        /\ Acceleration[e] # Weighted(Forces[e], 1, 1, 1)

\* The agents a force pass of the given radius counts for e.
Counted(e, distance) == {o \in Entities : DistSq(e, o) < distance * distance}

\* C8. Self-inclusive neighbour averages: after the passes every agent is one
\* of its own neighbours, cohesion is the mean position of the agents nearer
\* than 200 minus the own position, separation the mean of own position minus
\* other position over the agents nearer than 100, alignment the mean velocity
\* of the agents nearer than 100; two resting agents at (0,0) and (50,0) give
\* the one at (0,0) cohesion (25,0), separation (-25,0), alignment (0,0).
SelfInclusiveAverages ==
    PassesDone =>
        /\ \A e \in Entities :
            LET c == Counted(e, CohesionDistance)
                s == Counted(e, SeparationDistance)
                a == Counted(e, AlignmentDistance)
            IN /\ e \in c /\ e \in s /\ e \in a
               /\ VScale(Forces[e].cohesion, Cardinality(c)) =
                     Exact(VSub(VSum(Pos, c), VScale(Pos[e], Cardinality(c))))
               /\ VScale(Forces[e].separation, Cardinality(s)) =
                     Exact(VSub(VScale(Pos[e], Cardinality(s)), VSum(Pos, s)))
               /\ VScale(Forces[e].alignment, Cardinality(a)) =
                     Exact(VSum(Velocity, a))
        /\ \A e, o \in Entities :
              ( /\ BOID_COUNT = 2
                /\ Pos[e] = <<0, 0>> /\ Pos[o] = <<50, 0>>
                /\ Velocity[e] = Zero /\ Velocity[o] = Zero ) =>
              Forces[e] = [cohesion |-> Exact(<<25, 0>>),
                           separation |-> Exact(<<-25, 0>>),
                           alignment |-> Zero]

\* The passes have run for two resting agents at (0,0) and (50,0).
SelfInclusiveWitness ==
    /\ PassesDone
    /\ BOID_COUNT = 2
    /\ Pos[1] = <<0, 0>> /\ Pos[2] = <<50, 0>>
    /\ Velocity[1] = Zero /\ Velocity[2] = Zero
    /\ Forces[1].cohesion = Exact(<<25, 0>>)

\* C9. Snapshot consistency: no step from the start of a tick to the end of
\* apply_forces changes a position or a velocity; the cohesion pass changes
\* only the cohesion slots, the separation pass only the separation slots, the
\* alignment pass only the alignment slots, and none of them the acceleration.
SnapshotConsistency ==
    [][ /\ ((pc = 0 /\ pc' # 0) \/ (pc # 0 /\ ~Ran("apply forces"))) =>
              UNCHANGED <<Pos, Velocity>>
        /\ Scheduled("cohesion") =>
              /\ \A e \in Entities :
                    /\ Forces'[e].separation = Forces[e].separation
                    /\ Forces'[e].alignment = Forces[e].alignment
              /\ UNCHANGED Acceleration
        /\ Scheduled("separation") =>
              /\ \A e \in Entities :
                    /\ Forces'[e].cohesion = Forces[e].cohesion
                    /\ Forces'[e].alignment = Forces[e].alignment
              /\ UNCHANGED Acceleration
        /\ Scheduled("alignment") =>
              /\ \A e \in Entities :
                    /\ Forces'[e].cohesion = Forces[e].cohesion
                    /\ Forces'[e].separation = Forces[e].separation
              /\ UNCHANGED Acceleration
      ]_vars

\* The blend has run on the positions and velocities of the tick's start, with
\* an agent whose three slots are all non-zero.
SnapshotConsistencyWitness ==
    /\ Blended
    /\ Pos = start.Pos /\ Velocity = start.Velocity
    /\ \E e \in Entities :
        /\ Forces[e].cohesion # Zero
        /\ Forces[e].separation # Zero
        /\ Forces[e].alignment # Zero

\* C10. Position invariant: between ticks every agent's cached position lies
\* within the viewport widened by 16 on each side, and its sprite holds the
\* same position.
PositionInvariant ==
    pc = 0 =>
        \A e \in Entities :
            /\ InsideMargin(Pos[e])
            /\ Boid[e].global_position = Pos[e]

\* A tick has ended in which an agent wrapped on both axes.
PositionInvariantWitness ==
    /\ TickDone
    /\ \E e \in Entities :
        /\ pushed[e] = 2
        /\ moved[e][1] # Pos[e][1]
        /\ moved[e][2] # Pos[e][2]

====
